---- MODULE Spec2Model ----
(***************************************************************************)
(* The streaming authenticated-encryption codec of the diary program       *)
(* (src/src/cipher.rs): Encryptor::new / write / flush on the sealing      *)
(* side, Decryptor::new / read on the unsealing side, and between the two  *)
(* the container file, which whoever holds the file may alter.             *)
(*                                                                         *)
(* A byte is a record.  Header bytes carry the name of the random draw     *)
(* they come from and their index in it; ciphertext bytes carry what the   *)
(* AEAD binds (key, base nonce, counter, last flag, the plaintext window)  *)
(* and their index in the chunk, so that Open accepts a slice exactly when *)
(* it is one whole chunk sealed under the same key, nonce, counter and     *)
(* flag (an ideal AEAD).                                                   *)
(* Plaintext bytes are numbered 1, 2, 3, ... in the order they are passed  *)
(* to write: the codec never looks at a byte's value, and distinct values  *)
(* make loss, duplication and reordering visible.                          *)
(*                                                                         *)
(* CHUNK_SIZE and TAG_SIZE are scaled down (1024 and 16 in the source);    *)
(* the read buffer keeps its relation to them, CHUNK_SIZE + 2 * TAG_SIZE.  *)
(* COUNTER_MAX is scaled down as well (TLC's integers are 32 bits wide).   *)
(*                                                                         *)
(* Spec follows the codec from a stream cipher that has been built: the    *)
(* length GenericArray::from_slice demands of the nonce handed to          *)
(* from_aead (cipher.rs:45, cipher.rs:107) is not checked by EncryptorNew  *)
(* and DecryptorNew, which take the NONCE_SIZE bytes as the base nonce.    *)
(*                                                                         *)
(* SpecLong feeds one Encryptor a stream long enough to use every counter  *)
(* value.  SpecCli follows the commands of src/src/main.rs (new, entry,    *)
(* close, open) on the files of one diary: the directory with diary.json   *)
(* and the entry files, the staging file and the container.  The cipher    *)
(* main.rs calls (a stream cipher with a keyed hash checked by verify) is  *)
(* not the one of cipher.rs; there a container is what it was made from,   *)
(* how far it was written and whether it was changed afterwards.           *)
(***************************************************************************)
EXTENDS Integers, Sequences, FiniteSets, TLC

\* ---------------------------------------------------------------- sizes
NONCE_SIZE == 24
SALT_SIZE == 16
CHUNK_SIZE == 2
TAG_SIZE == 1

\* vec![0u8; CHUNK_SIZE + 32]: one chunk of ciphertext plus one more tag
EncryptedBufLen == CHUNK_SIZE + 2 * TAG_SIZE

HeaderLen == NONCE_SIZE + SALT_SIZE

\* the last counter value of the BE32 stream construction (u32::MAX in the
\* library, scaled down)
COUNTER_MAX == 7

\* --------------------------------------------------------------- bounds
MaxWindows == 2

\* a plaintext long enough to use every counter value and ask for one more
CeilingPlain == (COUNTER_MAX + 1) * CHUNK_SIZE + 1

\* the longest plaintext: MaxWindows full windows and one byte over
MaxPlain == MaxWindows * CHUNK_SIZE + 1

\* bytes appended to a container: fewer than a tag, a tag, more than a tag
MaxExtra == TAG_SIZE + 1

\* sizes of the buffer passed to read: smaller than a window, and larger
OutLens == {1, CHUNK_SIZE + 1}

\* lengths a container is cut to: nothing, a nonce less one byte, a nonce,
\* a header less one byte
ShortLens == {0, NONCE_SIZE - 1, NONCE_SIZE, HeaderLen - 1}

\* the names entries are added and removed under
Names == {"monday"}

\* the number of Uuid::new_v4 draws followed
MaxIds == 2

\* the password a diary is sealed with, and those it is opened with
SealPasswords == {"hunter2"}

Passwords == SealPasswords \cup {"wrong"}

\* -------------------------------------------------------------- helpers
Min(a, b) == IF a < b THEN a ELSE b

Take(s, n) == SubSeq(s, 1, Min(n, Len(s)))

Drop(s, n) == SubSeq(s, Min(n, Len(s)) + 1, Len(s))

RECURSIVE Flatten(_)
Flatten(ss) == IF ss = <<>> THEN <<>> ELSE Head(ss) \o Flatten(Tail(ss))

\* the length of the base nonce EncryptorBE32 / DecryptorBE32 over
\* XChaCha20Poly1305 take (the type of the array from_slice is asked for):
\* the cipher's 24-byte nonce less 4 counter bytes and 1 flag byte
StreamNonceSize == 24 - (4 + 1)

\* the bytes of one OsRng.fill_bytes draw
RandomBytes(name, n) == [i \in 1..n |-> [h |-> name, i |-> i]]

\* the value an array of bytes holds: the draw it is a whole copy of, or
\* else the bytes themselves (two arrays hold one value iff they are equal)
Value(bytes) ==
    IF /\ bytes # <<>>
       /\ "h" \in DOMAIN bytes[1]
       /\ bytes = RandomBytes(bytes[1].h, Len(bytes))
    THEN [draw |-> bytes[1].h, n |-> Len(bytes)]
    ELSE [draw |-> "none", bytes |-> bytes]

\* Argon2id of (password, salt): deterministic, and distinct inputs give
\* distinct keys
hash_password(password, salt) == [pw |-> password, salt |-> salt]

IsCipherByte(b) == "ctr" \in DOMAIN b

\* XChaCha20-Poly1305 under the STREAM nonce (base nonce, counter, flag):
\* the window's bytes followed by the tag
Seal(key, nonce, ctr, last, pt) ==
    [i \in 1..(Len(pt) + TAG_SIZE) |->
        [key |-> key, nonce |-> nonce, ctr |-> ctr, last |-> last,
         pt |-> pt, i |-> i, flip |-> FALSE]]

SameBytes(a, b) ==
    /\ Len(a) = Len(b)
    /\ \A i \in 1..Len(a) : a[i] = b[i]

Open(key, nonce, ctr, last, ct) ==
    IF /\ Len(ct) >= TAG_SIZE
       /\ IsCipherByte(ct[1])
       /\ SameBytes(ct, Seal(key, nonce, ctr, last, ct[1].pt))
    THEN [ok |-> TRUE, pt |-> ct[1].pt]
    ELSE [ok |-> FALSE, pt |-> <<>>]

\* encrypt_next as a construction without a ceiling would be: the counter
\* wraps to zero after its last value
encrypt_next_wrapping(e, chunk) ==
    [ok |-> TRUE,
     ct |-> Seal(e.key, e.nonce, e.position, FALSE, chunk),
     e |-> [e EXCEPT !.position = (@ + 1) % (COUNTER_MAX + 1)]]

\* EncryptorBE32::encrypt_next: refuses the last counter value, else seals
\* under (position, not last) and advances the position
encrypt_next(e, chunk) ==
    IF e.position = COUNTER_MAX
    THEN [ok |-> FALSE, ct |-> <<>>, e |-> e]
    ELSE [ok |-> TRUE,
          ct |-> Seal(e.key, e.nonce, e.position, FALSE, chunk),
          e |-> [e EXCEPT !.position = @ + 1]]

\* EncryptorBE32::encrypt_last: seals under (position, last), consumes self
encrypt_last(e, chunk) == Seal(e.key, e.nonce, e.position, TRUE, chunk)

\* decrypt_next as a cipher without authentication would be: whatever
\* ciphertext arrives is turned into the plaintext it was made from
decrypt_next_unverified(d, ct) ==
    IF IsCipherByte(ct[1])
    THEN [ok |-> TRUE, pt |-> ct[1].pt, d |-> [d EXCEPT !.position = @ + 1]]
    ELSE [ok |-> FALSE, pt |-> <<>>, d |-> d]

\* decrypt_next with the position left where it was
decrypt_next_replay(d, ct) ==
    LET r == Open(d.key, d.nonce, d.position, FALSE, ct)
    IN  [ok |-> r.ok, pt |-> r.pt, d |-> d]

\* DecryptorBE32::decrypt_next: the position advances only on success
decrypt_next(d, ct) ==
    IF d.position = COUNTER_MAX
    THEN [ok |-> FALSE, pt |-> <<>>, d |-> d]
    ELSE LET r == Open(d.key, d.nonce, d.position, FALSE, ct)
         IN  [ok |-> r.ok, pt |-> r.pt,
              d |-> IF r.ok THEN [d EXCEPT !.position = @ + 1] ELSE d]

NoCodec == [some |-> FALSE]

VARIABLES
    pc,            \* "new", "enc", "file", "dec", "nodec"
    password,      \* the password the container is sealed with
    inner,         \* Encryptor.inner, later Decryptor.inner: the file's bytes
    encryptor,     \* Encryptor.encryptor: Option<EncryptorBE32>
    buffer,        \* Encryptor.buffer
    wres,          \* the last write or flush call and its result
    plain,         \* every byte passed to write, in order
    emitted,       \* counter, flag and window of every chunk written
    flushes,       \* number of flush calls: 0, 1, or 2 for two and more
    attack,        \* what was done to the container file
    srcPos,        \* bytes of the file the Decryptor has consumed
    fills,         \* the source fills the buffer it is given whenever it can
    dpassword,     \* the password the container is opened with
    decryptor,     \* Decryptor.decryptor
    dbuffer,       \* Decryptor.buffer: decrypted bytes not yet handed out
    rres,          \* result of the last read
    out,           \* every byte read has returned
    errSeen,       \* some read has returned an error
    accepted,      \* position, counter and flag of every chunk that verified
    dirExists,     \* the diary directory <name> exists
    index,         \* <name>/diary.json
    indexNew,      \* <name>/diary.json.new
    entryFiles,    \* the ids of the files <name>/<id>.md
    stage,         \* <name>.diary.stage
    container,     \* <name>.diary
    proc,          \* the running command, where it stands, its locals
    nextId,        \* the next Uuid::new_v4 draw
    crashed        \* some command was ended before it had run to its end

codecVars == <<pc, password, inner, encryptor, buffer, wres, plain, emitted,
               flushes, attack, srcPos, fills, dpassword, decryptor, dbuffer,
               rres, out, errSeen, accepted>>

cliVars == <<dirExists, index, indexNew, entryFiles, stage, container, proc,
             nextId, crashed>>

vars == <<codecVars, cliVars>>

decVars == <<srcPos, fills, dpassword, decryptor, dbuffer, rres, out, errSeen,
             accepted>>

NoRead == [kind |-> "none", n |-> 0]

\* op: the call; res: "ok", "err" or "panic"; late: the call passed bytes
\* and the terminal chunk had been emitted before it
NoCall == [op |-> "none", res |-> "ok", late |-> FALSE]

NoAttack == [kind |-> "none", at |-> 0, chunk |-> 0]

\* Entries of entries.rs as diary.json holds it: st is "absent" (no file),
\* "empty" (created, nothing written) or "full"; entries maps a name to the
\* id of its Entry, 0 for none; key is the field key
NoEntries == [n \in Names |-> 0]

NoIndex == [st |-> "absent", entries |-> NoEntries, key |-> "none"]

\* what an archive of the diary directory holds
NoData == [index |-> NoIndex, files |-> {}]

\* the staging file: st is "absent", "empty" or "full"
NoStage == [st |-> "absent", data |-> NoData]

\* the container file: st is "absent", "created" (no byte written),
\* "header" (the four header fields), "part" (some of the stream copied)
\* or "full"; key is the password its key was derived from; tampered: a
\* byte of it was changed after it was written
NoContainer == [st |-> "absent", data |-> NoData, key |-> "none",
                tampered |-> FALSE]

\* no command is running; out tells how the last one ended: "done",
\* "Diary opened." or "error"
Idle(msg) == [cmd |-> "none", pc |-> "none", key |-> "none", name |-> "none",
              mem |-> NoIndex, out |-> msg]

Init ==
    /\ dirExists = FALSE
    /\ index = NoIndex
    /\ indexNew = NoIndex
    /\ entryFiles = {}
    /\ stage = NoStage
    /\ container = NoContainer
    /\ proc = Idle("")
    /\ nextId = 1
    /\ crashed = FALSE
    /\ pc = "new"
    /\ password = "none"
    /\ inner = <<>>
    /\ encryptor = NoCodec
    /\ buffer = <<>>
    /\ wres = NoCall
    /\ plain = <<>>
    /\ emitted = <<>>
    /\ flushes = 0
    /\ attack = NoAttack
    /\ srcPos = 0
    /\ fills = TRUE
    /\ dpassword = "none"
    /\ decryptor = NoCodec
    /\ dbuffer = <<>>
    /\ rres = NoRead
    /\ out = <<>>
    /\ errSeen = FALSE
    /\ accepted = <<>>

\* ------------------------------------------------------------ Encryptor
\* Encryptor::new: the nonce is drawn and written, then the salt is drawn
\* and written, then the key is derived from the password and the salt
EncryptorNew(key) ==
    /\ pc = "new"
    /\ LET nonce == RandomBytes("nonce", NONCE_SIZE)
           salt == RandomBytes("salt", SALT_SIZE)
           key_hash == hash_password(key, Value(salt))
       IN  /\ inner' = inner \o nonce \o salt
           /\ encryptor' = [some |-> TRUE, key |-> key_hash,
                            nonce |-> Value(nonce), position |-> 0]
    /\ password' = key
    /\ pc' = "enc"
    /\ UNCHANGED <<buffer, wres, plain, emitted, flushes, attack>>
    /\ UNCHANGED decVars
    /\ UNCHANGED cliVars

\* the while loop of Encryptor::write, one iteration per full window
RECURSIVE WriteLoop(_, _, _, _)
WriteLoop(buf, e, snk, em) ==
    IF Len(buf) < CHUNK_SIZE
    THEN [res |-> "ok", buffer |-> buf, encryptor |-> e, inner |-> snk,
          emitted |-> em]
    ELSE LET chunk == Take(buf, CHUNK_SIZE)
             rest == Drop(buf, CHUNK_SIZE)
         IN  IF ~e.some
             THEN [res |-> "panic", buffer |-> rest, encryptor |-> e,
                   inner |-> snk, emitted |-> em]
             ELSE LET r == encrypt_next(e, chunk)
                  IN  IF ~r.ok
                      THEN [res |-> "err", buffer |-> rest,
                            encryptor |-> r.e, inner |-> snk, emitted |-> em]
                      ELSE WriteLoop(rest, r.e, snk \o r.ct,
                                     Append(em, [ctr |-> e.position,
                                                 last |-> FALSE,
                                                 pt |-> chunk]))

TerminalEmitted == \E k \in 1..Len(emitted) : emitted[k].last

\* Encryptor::write with a buffer of n fresh bytes, the stream no longer
\* than max bytes
WriteWithin(n, max) ==
    /\ pc = "enc"
    /\ wres.res # "panic"
    /\ Len(plain) + n <= max
    /\ LET buf == [i \in 1..n |-> Len(plain) + i]
           r == WriteLoop(buffer \o buf, encryptor, inner, emitted)
       IN  /\ buffer' = r.buffer
           /\ encryptor' = r.encryptor
           /\ inner' = r.inner
           /\ emitted' = r.emitted
           /\ wres' = [op |-> "write", res |-> r.res,
                        late |-> (TerminalEmitted /\ n > 0)]
           /\ plain' = plain \o buf
    /\ UNCHANGED <<pc, password, flushes, attack>>
    /\ UNCHANGED decVars
    /\ UNCHANGED cliVars

Write(n) == WriteWithin(n, MaxPlain)

\* Encryptor::flush: the terminal chunk is sealed only when the buffer holds
\* bytes and the stream encryptor has not been taken yet
Flush ==
    /\ pc = "enc"
    /\ wres.res # "panic"
    /\ IF buffer # <<>> /\ encryptor.some
       THEN LET ciphertext == encrypt_last(encryptor, buffer)
            IN  /\ inner' = inner \o ciphertext
                /\ emitted' = Append(emitted, [ctr |-> encryptor.position,
                                                last |-> TRUE,
                                                pt |-> buffer])
                /\ encryptor' = NoCodec
                /\ buffer' = <<>>
       ELSE UNCHANGED <<inner, emitted, encryptor, buffer>>
    /\ wres' = [op |-> "flush", res |-> "ok", late |-> FALSE]
    /\ flushes' = Min(flushes + 1, 2)
    /\ UNCHANGED <<pc, password, plain, attack>>
    /\ UNCHANGED decVars
    /\ UNCHANGED cliVars

\* the Encryptor is dropped, its buffer and stream encryptor with it; the
\* bytes it wrote are the container file
Finish ==
    /\ pc = "enc"
    /\ pc' = "file"
    /\ encryptor' = NoCodec
    /\ buffer' = <<>>
    /\ UNCHANGED <<password, inner, wres, plain, emitted, flushes, attack>>
    /\ UNCHANGED decVars
    /\ UNCHANGED cliVars

\* ----------------------------------------------------- the container file
\* Between sealing and unsealing the file is out of the program's hands.  At
\* most one alteration is made; attack.at is the index in the file of the
\* first byte that is not where the Encryptor put it, attack.chunk the
\* number of the chunk that byte is in.
ChunkLen(c) == Len(c.pt) + TAG_SIZE

RECURSIVE SumLen(_)
SumLen(cs) == IF cs = <<>> THEN 0 ELSE ChunkLen(Head(cs)) + SumLen(Tail(cs))

ChunkStart(k) == HeaderLen + SumLen(SubSeq(emitted, 1, k - 1)) + 1

ChunkBytes(k) ==
    SubSeq(inner, ChunkStart(k), ChunkStart(k) + ChunkLen(emitted[k]) - 1)

ChunkAt(i) ==
    CHOOSE k \in 1..Len(emitted) :
        /\ ChunkStart(k) <= i
        /\ i < ChunkStart(k) + ChunkLen(emitted[k])

\* the file with the chunks numbered ks, in that order, after the header
FileOf(ks) ==
    SubSeq(inner, 1, HeaderLen) \o Flatten([n \in 1..Len(ks) |-> ks[n]])

Chunks(a, b) == [n \in 1..(b - a + 1) |-> ChunkBytes(a + n - 1)]

Garbage(n) == [i \in 1..n |-> [g |-> i]]

Untouched == pc = "file" /\ attack = NoAttack

\* one bit of one ciphertext byte is flipped
FlipBit(i) ==
    /\ Untouched
    /\ i \in (HeaderLen + 1)..Len(inner)
    /\ inner' = [inner EXCEPT ![i].flip = TRUE]
    /\ attack' = [kind |-> "flip", at |-> i, chunk |-> ChunkAt(i)]
    /\ UNCHANGED <<pc, password, encryptor, buffer, wres, plain, emitted,
                   flushes>>
    /\ UNCHANGED decVars
    /\ UNCHANGED cliVars

\* the final chunk is cut off
RemoveFinal ==
    /\ Untouched
    /\ emitted # <<>>
    /\ inner' = FileOf(Chunks(1, Len(emitted) - 1))
    /\ attack' = [kind |-> "cut", at |-> ChunkStart(Len(emitted)),
                  chunk |-> Len(emitted)]
    /\ UNCHANGED <<pc, password, encryptor, buffer, wres, plain, emitted,
                   flushes>>
    /\ UNCHANGED decVars
    /\ UNCHANGED cliVars

\* n bytes are appended after the final chunk
AppendExtra(n) ==
    /\ Untouched
    /\ inner' = inner \o Garbage(n)
    /\ attack' = [kind |-> "append", at |-> Len(inner) + 1,
                  chunk |-> Len(emitted) + 1]
    /\ UNCHANGED <<pc, password, encryptor, buffer, wres, plain, emitted,
                   flushes>>
    /\ UNCHANGED decVars
    /\ UNCHANGED cliVars

\* chunks i and j change places
SwapChunks(i, j) ==
    /\ Untouched
    /\ i \in 1..Len(emitted)
    /\ j \in 1..Len(emitted)
    /\ i < j
    /\ inner' = FileOf(Chunks(1, i - 1) \o <<ChunkBytes(j)>>
                       \o Chunks(i + 1, j - 1) \o <<ChunkBytes(i)>>
                       \o Chunks(j + 1, Len(emitted)))
    /\ attack' = [kind |-> "swap", at |-> ChunkStart(i), chunk |-> i]
    /\ UNCHANGED <<pc, password, encryptor, buffer, wres, plain, emitted,
                   flushes>>
    /\ UNCHANGED decVars
    /\ UNCHANGED cliVars

\* a copy of chunk i is inserted after chunk j
DuplicateChunk(i, j) ==
    /\ Untouched
    /\ i \in 1..Len(emitted)
    /\ j \in i..Len(emitted)
    /\ inner' = FileOf(Chunks(1, j) \o <<ChunkBytes(i)>>
                       \o Chunks(j + 1, Len(emitted)))
    /\ attack' = [kind |-> "dup", at |-> ChunkStart(j + 1), chunk |-> j + 1]
    /\ UNCHANGED <<pc, password, encryptor, buffer, wres, plain, emitted,
                   flushes>>
    /\ UNCHANGED decVars
    /\ UNCHANGED cliVars

\* a block of n garbage bytes is inserted after chunk j
InsertGarbage(j, n) ==
    /\ Untouched
    /\ j \in 0..Len(emitted)
    /\ inner' = FileOf(Chunks(1, j) \o <<Garbage(n)>>
                       \o Chunks(j + 1, Len(emitted)))
    /\ attack' = [kind |-> "garbage", at |-> ChunkStart(j + 1),
                  chunk |-> j + 1]
    /\ UNCHANGED <<pc, password, encryptor, buffer, wres, plain, emitted,
                   flushes>>
    /\ UNCHANGED decVars
    /\ UNCHANGED cliVars

\* the file is cut to its first n bytes, fewer than a header
CutShort(n) ==
    /\ Untouched
    /\ n < HeaderLen
    /\ inner' = SubSeq(inner, 1, n)
    /\ attack' = [kind |-> "short", at |-> n + 1, chunk |-> 0]
    /\ UNCHANGED <<pc, password, encryptor, buffer, wres, plain, emitted,
                   flushes>>
    /\ UNCHANGED decVars
    /\ UNCHANGED cliVars

\* ------------------------------------------------------------ Decryptor
\* read_exact as a plain read would be: whatever bytes are left are handed
\* over, however few
read_exact_lenient(pos, n) ==
    [ok |-> TRUE, bytes |-> SubSeq(inner, pos + 1, Min(pos + n, Len(inner)))]

\* Read::read_exact of n bytes from byte pos on: an error (UnexpectedEof)
\* unless the source holds n more bytes
read_exact(pos, n) ==
    IF Len(inner) - pos < n
    THEN [ok |-> FALSE, bytes |-> <<>>]
    ELSE [ok |-> TRUE, bytes |-> SubSeq(inner, pos + 1, pos + n)]

\* Decryptor::new: read_exact of the nonce, then of the salt; either fails
\* on a source that ends early.  The source is the file read directly
\* (full: every read fills the buffer unless the file ends) or through
\* something that may hand over fewer bytes than asked for.
DecryptorNew(key, full) ==
    /\ pc = "file"
    /\ dpassword' = key
    /\ fills' = full
    /\ LET nonce == read_exact(0, NONCE_SIZE)
           salt == read_exact(Len(nonce.bytes), SALT_SIZE)
       IN  IF ~nonce.ok \/ ~salt.ok
           THEN /\ pc' = "nodec"
                /\ srcPos' = Len(inner)
                /\ UNCHANGED decryptor
           ELSE LET key_hash == hash_password(key, Value(salt.bytes))
                IN  /\ pc' = "dec"
                    /\ srcPos' = Len(nonce.bytes) + Len(salt.bytes)
                    /\ decryptor' = [some |-> TRUE, key |-> key_hash,
                                     nonce |-> Value(nonce.bytes),
                                     position |-> 0]
    /\ UNCHANGED <<attack, dbuffer, rres, out, errSeen, accepted>>
    /\ UNCHANGED <<password, inner, encryptor, buffer, wres, plain, emitted,
                   flushes>>
    /\ UNCHANGED cliVars

\* what one read call hands back, and the history kept of it
Returned(bytes) ==
    /\ rres' = [kind |-> "ok", n |-> Len(bytes)]
    /\ out' = out \o bytes
    /\ UNCHANGED errSeen

\* Decryptor::read into a buffer of len bytes, the source handing over n
\* bytes (at most the room in encrypted_buf, at least one unless it is at
\* its end) when it is asked
Read(len, n) ==
    /\ pc = "dec"
    /\ IF dbuffer # <<>>
       THEN /\ n = 0
            /\ Returned(Take(dbuffer, len))
            /\ dbuffer' = Drop(dbuffer, len)
            /\ UNCHANGED <<srcPos, decryptor, accepted>>
       ELSE IF srcPos = Len(inner)
       THEN /\ n = 0
            /\ Returned(<<>>)
            /\ UNCHANGED <<srcPos, decryptor, dbuffer, accepted>>
       ELSE /\ n \in 1..Min(EncryptedBufLen, Len(inner) - srcPos)
            /\ fills => n = Min(EncryptedBufLen, Len(inner) - srcPos)
            /\ srcPos' = srcPos + n
            /\ LET ct == SubSeq(inner, srcPos + 1, srcPos + n)
                   r == decrypt_next(decryptor, ct)
               IN  IF r.ok
                   THEN /\ decryptor' = r.d
                        /\ accepted' = Append(accepted,
                               [pos |-> decryptor.position, ctr |-> ct[1].ctr,
                                last |-> ct[1].last])
                        /\ Returned(Take(r.pt, len))
                        /\ dbuffer' = Drop(r.pt, len)
                   ELSE /\ rres' = [kind |-> "err", n |-> 0]
                        /\ errSeen' = TRUE
                        /\ UNCHANGED <<decryptor, accepted, out, dbuffer>>
    /\ UNCHANGED <<pc, attack, fills, dpassword>>
    /\ UNCHANGED <<password, inner, encryptor, buffer, wres, plain, emitted,
                   flushes>>
    /\ UNCHANGED cliVars

Next ==
    \/ \E key \in SealPasswords : EncryptorNew(key)
    \/ \E n \in 0..MaxPlain : Write(n)
    \/ Flush
    \/ Finish
    \/ \E i \in 1..(HeaderLen + (MaxWindows + 1) * (CHUNK_SIZE + TAG_SIZE)) :
          FlipBit(i)
    \/ RemoveFinal
    \/ \E n \in 1..MaxExtra : AppendExtra(n)
    \/ \E i, j \in 1..(MaxWindows + 1) : SwapChunks(i, j)
    \/ \E i, j \in 1..(MaxWindows + 1) : DuplicateChunk(i, j)
    \/ \E j \in 0..(MaxWindows + 1), n \in {CHUNK_SIZE + TAG_SIZE, EncryptedBufLen} :
          InsertGarbage(j, n)
    \/ \E n \in ShortLens : CutShort(n)
    \/ \E key \in Passwords, full \in BOOLEAN : DecryptorNew(key, full)
    \/ \E len \in OutLens, n \in 0..EncryptedBufLen : Read(len, n)

Spec == Init /\ [][Next]_vars

\* one Encryptor fed a long stream in slices of up to a window and a byte
NextLong ==
    \/ \E key \in SealPasswords : EncryptorNew(key)
    \/ \E n \in 0..(CHUNK_SIZE + 1) : WriteWithin(n, CeilingPlain)
    \/ Flush

SpecLong == Init /\ [][NextLong]_vars

\* ------------------------------------------------------------- commands
\* The commands of main.rs on one diary <name>, one process at a time, a
\* step per file operation.  A command that returns an error or is killed
\* leaves the files as they are at that step.
Running(cmd, at) == proc.cmd = cmd /\ proc.pc = at

FilesUnchanged ==
    UNCHANGED <<dirExists, index, indexNew, entryFiles, stage, container>>

\* Command::New: fs::create_dir, then File::create_new of diary.json
NewCreate ==
    /\ proc.cmd = "none"
    /\ IF dirExists
       THEN /\ proc' = Idle("error")
            /\ UNCHANGED <<dirExists, index>>
       ELSE /\ dirExists' = TRUE
            /\ index' = [NoIndex EXCEPT !.st = "empty"]
            /\ proc' = [Idle("") EXCEPT !.cmd = "new", !.pc = "prompt"]
    /\ UNCHANGED <<indexNew, entryFiles, stage, container, nextId, crashed>>
    /\ UNCHANGED codecVars

\* the two password prompts and their comparison
NewPrompt(p1, p2) ==
    /\ Running("new", "prompt")
    /\ proc' = IF p1 # p2
               THEN Idle("error")
               ELSE [proc EXCEPT !.key = p1, !.pc = "write"]
    /\ FilesUnchanged
    /\ UNCHANGED <<nextId, crashed>>
    /\ UNCHANGED codecVars

\* serde_json::to_writer of Entries { entries: empty, key }
NewWrite ==
    /\ Running("new", "write")
    /\ index' = [st |-> "full", entries |-> NoEntries, key |-> proc.key]
    /\ proc' = Idle("done")
    /\ UNCHANGED <<dirExists, indexNew, entryFiles, stage, container, nextId,
                   crashed>>
    /\ UNCHANGED codecVars

\* Command::Entry: diary.json of the working directory is deserialized
EntryRead(cmd, name) ==
    /\ proc.cmd = "none"
    /\ cmd = "add" => nextId <= MaxIds
    /\ proc' = IF ~dirExists \/ index.st # "full"
               THEN Idle("error")
               ELSE [Idle("") EXCEPT !.cmd = cmd, !.pc = "loaded",
                                     !.name = name, !.mem = index]
    /\ FilesUnchanged
    /\ UNCHANGED <<nextId, crashed>>
    /\ UNCHANGED codecVars

\* EntryCommand::Add: a fresh id, File::create_new of <id>.md, then
\* entries.insert(name, entry), which replaces an entry of that name
EntryAdd ==
    /\ Running("add", "loaded")
    /\ entryFiles' = entryFiles \cup {nextId}
    /\ nextId' = nextId + 1
    /\ proc' = [proc EXCEPT !.mem.entries[proc.name] = nextId,
                            !.pc = "save"]
    /\ UNCHANGED <<dirExists, index, indexNew, stage, container, crashed>>
    /\ UNCHANGED codecVars

\* EntryCommand::Remove: entries.remove(name), and fs::remove_file of the
\* entry's path when there was one
EntryRemove ==
    /\ Running("remove", "loaded")
    /\ LET id == proc.mem.entries[proc.name]
       IN  IF id = 0
           THEN /\ proc' = [proc EXCEPT !.pc = "save"]
                /\ UNCHANGED entryFiles
           ELSE IF id \notin entryFiles
           THEN /\ proc' = Idle("error")
                /\ UNCHANGED entryFiles
           ELSE /\ entryFiles' = entryFiles \ {id}
                /\ proc' = [proc EXCEPT !.mem.entries[proc.name] = 0,
                                        !.pc = "save"]
    /\ UNCHANGED <<dirExists, index, indexNew, stage, container, nextId,
                   crashed>>
    /\ UNCHANGED codecVars

\* File::create of diary.json.new and serde_json::to_writer into it
EntrySave ==
    /\ proc.cmd \in {"add", "remove"}
    /\ proc.pc = "save"
    /\ indexNew' = proc.mem
    /\ proc' = [proc EXCEPT !.pc = "rename"]
    /\ UNCHANGED <<dirExists, index, entryFiles, stage, container, nextId,
                   crashed>>
    /\ UNCHANGED codecVars

\* fs::rename of diary.json.new to diary.json
EntryRename ==
    /\ proc.cmd \in {"add", "remove"}
    /\ proc.pc = "rename"
    /\ index' = indexNew
    /\ indexNew' = NoIndex
    /\ proc' = Idle("done")
    /\ UNCHANGED <<dirExists, entryFiles, stage, container, nextId, crashed>>
    /\ UNCHANGED codecVars

\* EntryCommand::List and EntryCommand::Search: the entries are printed
EntryList ==
    /\ proc.cmd = "none"
    /\ proc' = IF ~dirExists \/ index.st # "full"
               THEN Idle("error")
               ELSE Idle("done")
    /\ FilesUnchanged
    /\ UNCHANGED <<nextId, crashed>>
    /\ UNCHANGED codecVars

\* Command::Close: <name>/diary.json is deserialized, salt and nonces are
\* drawn, the key is derived from entries.key
CloseRead ==
    /\ proc.cmd = "none"
    /\ proc' = IF ~dirExists \/ index.st # "full"
               THEN Idle("error")
               ELSE [Idle("") EXCEPT !.cmd = "close", !.pc = "stage",
                                     !.key = index.key, !.mem = index]
    /\ FilesUnchanged
    /\ UNCHANGED <<nextId, crashed>>
    /\ UNCHANGED codecVars

\* File::create_new of the staging file
CloseStage ==
    /\ Running("close", "stage")
    /\ IF stage.st # "absent"
       THEN /\ proc' = Idle("error")
            /\ UNCHANGED stage
       ELSE /\ stage' = [NoStage EXCEPT !.st = "empty"]
            /\ proc' = [proc EXCEPT !.pc = "archive"]
    /\ UNCHANGED <<dirExists, index, indexNew, entryFiles, container, nextId,
                   crashed>>
    /\ UNCHANGED codecVars

\* the directory is archived, compressed and encrypted into the staging file
CloseArchive ==
    /\ Running("close", "archive")
    /\ stage' = [st |-> "full",
                 data |-> [index |-> index, files |-> entryFiles]]
    /\ proc' = [proc EXCEPT !.pc = "create"]
    /\ UNCHANGED <<dirExists, index, indexNew, entryFiles, container, nextId,
                   crashed>>
    /\ UNCHANGED codecVars

\* File::create of the container: a file of that name is emptied
CloseCreateTruncating ==
    /\ Running("close", "create")
    /\ container' = [NoContainer EXCEPT !.st = "created"]
    /\ proc' = [proc EXCEPT !.pc = "header"]
    /\ UNCHANGED <<dirExists, index, indexNew, entryFiles, stage, nextId,
                   crashed>>
    /\ UNCHANGED codecVars

\* File::create_new of the container: an error when the file exists
CloseCreate ==
    /\ Running("close", "create")
    /\ IF container.st # "absent"
       THEN /\ proc' = Idle("error")
            /\ UNCHANGED container
       ELSE /\ container' = [NoContainer EXCEPT !.st = "created"]
            /\ proc' = [proc EXCEPT !.pc = "header"]
    /\ UNCHANGED <<dirExists, index, indexNew, entryFiles, stage, nextId,
                   crashed>>
    /\ UNCHANGED codecVars

\* salt, nonce, hash_nonce and hash are written to the container
CloseHeader ==
    /\ Running("close", "header")
    /\ container' = [container EXCEPT !.st = "header", !.key = proc.key]
    /\ proc' = [proc EXCEPT !.pc = "copy"]
    /\ UNCHANGED <<dirExists, index, indexNew, entryFiles, stage, nextId,
                   crashed>>
    /\ UNCHANGED codecVars

\* io::copy of the staging file into the container, some of it and then
\* the rest, and out.flush
CloseCopy ==
    /\ Running("close", "copy")
    /\ IF container.st = "header"
       THEN /\ container' = [container EXCEPT !.st = "part"]
            /\ UNCHANGED proc
       ELSE /\ container' = [container EXCEPT !.st = "full",
                                            !.data = stage.data]
            /\ proc' = [proc EXCEPT !.pc = "rmdir"]
    /\ UNCHANGED <<dirExists, index, indexNew, entryFiles, stage, nextId,
                   crashed>>
    /\ UNCHANGED codecVars

\* fs::remove_dir_all of the diary directory
CloseRemoveDir ==
    /\ Running("close", "rmdir")
    /\ dirExists' = FALSE
    /\ index' = NoIndex
    /\ indexNew' = NoIndex
    /\ entryFiles' = {}
    /\ proc' = [proc EXCEPT !.pc = "rmstage"]
    /\ UNCHANGED <<stage, container, nextId, crashed>>
    /\ UNCHANGED codecVars

\* fs::remove_file of the staging file
CloseRemoveStage ==
    /\ Running("close", "rmstage")
    /\ stage' = NoStage
    /\ proc' = Idle("done")
    /\ UNCHANGED <<dirExists, index, indexNew, entryFiles, container, nextId,
                   crashed>>
    /\ UNCHANGED codecVars

\* Command::Open: the password is asked for and the container opened
OpenFile(key) ==
    /\ proc.cmd = "none"
    /\ proc' = IF container.st = "absent"
               THEN Idle("error")
               ELSE [Idle("") EXCEPT !.cmd = "open", !.pc = "header",
                                     !.key = key]
    /\ FilesUnchanged
    /\ UNCHANGED <<nextId, crashed>>
    /\ UNCHANGED codecVars

\* read_exact of the four header fields, then hash_password
OpenHeader ==
    /\ Running("open", "header")
    /\ proc' = IF container.st = "created"
               THEN Idle("error")
               ELSE [proc EXCEPT !.pc = "unpack"]
    /\ FilesUnchanged
    /\ UNCHANGED <<nextId, crashed>>
    /\ UNCHANGED codecVars

\* Decryptor::verify of the stream cipher with a trailing keyed hash: the
\* hash of the ciphertext read equals the hash in the header
verify(c) == c.st = "full" /\ ~c.tampered

\* archive.unpack into <name>: the directory is made, then the entries of
\* the decrypted, decompressed archive are written over what is there.
\* It succeeds on a whole container opened with its password, fails on one
\* cut short or opened with another password, and may do either on one
\* that was changed where the unarchiver does not look.
OpenUnpack(ok) ==
    /\ Running("open", "unpack")
    /\ ok => (container.st = "full" /\ proc.key = container.key)
    /\ ~ok => ~(verify(container) /\ proc.key = container.key)
    /\ dirExists' = TRUE
    /\ IF ok
       THEN /\ index' = container.data.index
            /\ entryFiles' = entryFiles \cup container.data.files
            /\ proc' = [proc EXCEPT !.pc = "verify"]
       ELSE /\ proc' = Idle("error")
            /\ UNCHANGED <<index, entryFiles>>
    /\ UNCHANGED <<indexNew, stage, container, nextId, crashed>>
    /\ UNCHANGED codecVars

\* the result of verify is not looked at
OpenVerifyIgnored ==
    /\ Running("open", "verify")
    /\ proc' = [proc EXCEPT !.pc = "remove"]
    /\ FilesUnchanged
    /\ UNCHANGED <<nextId, crashed>>
    /\ UNCHANGED codecVars

\* if !cipher.verify() { bail! }
OpenVerify ==
    /\ Running("open", "verify")
    /\ proc' = IF ~verify(container)
               THEN Idle("error")
               ELSE [proc EXCEPT !.pc = "remove"]
    /\ FilesUnchanged
    /\ UNCHANGED <<nextId, crashed>>
    /\ UNCHANGED codecVars

\* fs::remove_file of the container
OpenRemove ==
    /\ Running("open", "remove")
    /\ container' = NoContainer
    /\ proc' = Idle("Diary opened.")
    /\ UNCHANGED <<dirExists, index, indexNew, entryFiles, stage, nextId,
                   crashed>>
    /\ UNCHANGED codecVars

\* between two commands a byte of the container is changed
Tamper ==
    /\ proc.cmd = "none"
    /\ container.st = "full"
    /\ ~container.tampered
    /\ container' = [container EXCEPT !.tampered = TRUE]
    /\ UNCHANGED <<dirExists, index, indexNew, entryFiles, stage, proc,
                   nextId, crashed>>
    /\ UNCHANGED codecVars

\* the running command is killed, or a file operation of its next step
\* returns an error and main returns it
Abort ==
    /\ proc.cmd # "none"
    /\ proc' = Idle("error")
    /\ crashed' = TRUE
    /\ FilesUnchanged
    /\ UNCHANGED nextId
    /\ UNCHANGED codecVars

NextCli ==
    \/ NewCreate
    \/ \E p1, p2 \in Passwords : NewPrompt(p1, p2)
    \/ NewWrite
    \/ \E cmd \in {"add", "remove"}, name \in Names : EntryRead(cmd, name)
    \/ EntryAdd
    \/ EntryRemove
    \/ EntrySave
    \/ EntryRename
    \/ EntryList
    \/ CloseRead
    \/ CloseStage
    \/ CloseArchive
    \/ CloseCreate
    \/ CloseHeader
    \/ CloseCopy
    \/ CloseRemoveDir
    \/ CloseRemoveStage
    \/ \E key \in Passwords : OpenFile(key)
    \/ OpenHeader
    \/ \E ok \in BOOLEAN : OpenUnpack(ok)
    \/ OpenVerify
    \/ OpenRemove
    \/ Tamper
    \/ Abort

SpecCli == Init /\ [][NextCli]_vars

\* --------------------------------------------------------------- claims
Honest == attack = NoAttack

\* the Decryptor reads the container file itself
FromFile == pc = "dec" /\ fills

SamePassword == dpassword = password

\* the Encryptor was used as intended: writes, then one flush
OneFlushAtEnd == flushes = 1 /\ wres.op = "flush"

\* the last read returned Ok(0)
EndOfStream == rres.kind = "ok" /\ rres.n = 0

Returns(b) == \E o \in 1..Len(out) : out[o] = b

\* C1: an untouched container sealed by writes and one flush, read from the
\* file with the same password: no read returns an error, and when read
\* returns 0 the bytes returned are exactly the plaintext
C1_RoundTrip ==
    (FromFile /\ Honest /\ SamePassword /\ OneFlushAtEnd)
        => /\ rres.kind # "err"
           /\ EndOfStream => out = plain

\* C2: with one bit of a ciphertext chunk flipped, a read has returned an
\* error once the flipped byte has been consumed, and no plaintext byte of
\* that chunk or of a later chunk is ever returned
C2_TamperDetected ==
    (pc = "dec" /\ attack.kind = "flip")
        => /\ srcPos >= attack.at => errSeen
           /\ \A k \in attack.chunk..Len(emitted) :
                 \A j \in 1..Len(emitted[k].pt) : ~Returns(emitted[k].pt[j])

\* the chunks before the flipped one verified and were returned, and the
\* read that consumed the flipped chunk returned an error
C2_Witness ==
    /\ pc = "dec"
    /\ attack.kind = "flip"
    /\ SamePassword
    /\ attack.chunk >= 2
    /\ Len(accepted) = attack.chunk - 1
    /\ out # <<>>
    /\ rres.kind = "err"
    /\ srcPos >= attack.at

\* C3: a container sealed by writes and one flush, with its final chunk
\* removed or bytes appended, read from the file with the same password:
\* read returns 0 only after an error, and only after a chunk with the last
\* flag has verified
C3_TruncationDetected ==
    (FromFile /\ SamePassword /\ OneFlushAtEnd
       /\ attack.kind \in {"cut", "append"} /\ EndOfStream)
        => /\ errSeen
           /\ \E i \in 1..Len(accepted) : accepted[i].last

\* C4: N full windows written and one flush give N full non-final chunks
\* and one empty final chunk, and decryption gives the N windows back
C4_ChunkBoundary ==
    (OneFlushAtEnd /\ Len(plain) % CHUNK_SIZE = 0)
        => LET N == Len(plain) \div CHUNK_SIZE
           IN  /\ Len(emitted) = N + 1
               /\ \A k \in 1..N : /\ ~emitted[k].last
                                  /\ Len(emitted[k].pt) = CHUNK_SIZE
               /\ emitted[N + 1].last
               /\ emitted[N + 1].pt = <<>>
               /\ (FromFile /\ Honest /\ SamePassword /\ EndOfStream)
                      => out = plain

\* C5: an untouched container sealed by writes and one flush, read from the
\* file with another password than it was sealed with: no plaintext is
\* returned, and the end of the stream is never reached without an error
C5_WrongPassword ==
    (FromFile /\ Honest /\ OneFlushAtEnd /\ ~SamePassword)
        => /\ out = <<>>
           /\ EndOfStream => errSeen

\* C6: once flush has been called, exactly one terminal chunk has been
\* written to the sink
C6_TerminalOnce ==
    flushes >= 1 => Cardinality({k \in 1..Len(emitted) : emitted[k].last}) = 1

\* C7: a write of a non-empty buffer after the terminal chunk has been
\* emitted returns an error
C7_WriteAfterFinalize ==
    (wres.op = "write" /\ wres.late) => wres.res = "err"

\* C8: reading from the file, once a read has returned an error, every
\* later read returns an error or 0 bytes
C8_FailureFinal ==
    (FromFile /\ errSeen) => (rres.kind = "err" \/ rres.n = 0)

\* C9: every chunk that verifies does so at the counter position it was
\* sealed under, the positions being 0, 1, 2, ... in that order; with two
\* chunks swapped or a chunk duplicated, a read has returned an error once
\* the first out-of-position chunk has been reached
C9_OrderAuthenticated ==
    /\ \A i \in 1..Len(accepted) : /\ accepted[i].ctr = i - 1
                                   /\ accepted[i].pos = accepted[i].ctr
    /\ (pc = "dec" /\ attack.kind \in {"swap", "dup"} /\ srcPos >= attack.at)
          => errSeen

\* a chunk verified in its place, then the copy of a chunk that follows it
\* was read whole and refused
C9_Witness ==
    /\ pc = "dec"
    /\ attack.kind = "dup"
    /\ SamePassword
    /\ Len(accepted) >= 1
    /\ Len(accepted) = attack.chunk - 1
    /\ rres.kind = "err"
    /\ srcPos = attack.at + CHUNK_SIZE + TAG_SIZE - 1

\* C10: the container starts with the salt, the nonce follows, and the
\* Decryptor takes the salt from the first SALT_SIZE bytes and the nonce
\* from the NONCE_SIZE bytes after them
C10_HeaderLayout ==
    /\ pc # "new"
          => /\ SubSeq(inner, 1, SALT_SIZE) = RandomBytes("salt", SALT_SIZE)
             /\ SubSeq(inner, SALT_SIZE + 1, HeaderLen)
                   = RandomBytes("nonce", NONCE_SIZE)
    /\ pc = "dec"
          => /\ decryptor.key.salt = Value(SubSeq(inner, 1, SALT_SIZE))
             /\ decryptor.nonce
                   = Value(SubSeq(inner, SALT_SIZE + 1, HeaderLen))

\* C11: from a source that holds fewer bytes than the header, Decryptor::new
\* returns an error: no Decryptor is built (no derived key is put to use),
\* no chunk is decrypted and no plaintext is returned
C11_ShortRejected ==
    (attack.kind = "short" /\ pc \notin {"new", "enc", "file"})
        => /\ pc = "nodec"
           /\ ~decryptor.some
           /\ accepted = <<>>
           /\ out = <<>>
           /\ rres = NoRead

\* a container cut inside its salt has been handed to Decryptor::new
C11_Witness ==
    /\ attack.kind = "short"
    /\ Len(inner) >= NONCE_SIZE
    /\ pc = "nodec"

\* C12: in every state inside a write call the Encryptor's buffer holds at
\* most one chunk of plaintext, whatever the size of the slice written:
\* the bytes held right after extend_from_slice, the old buffer and the
\* whole slice, are no more than CHUNK_SIZE
C12_BoundedBuffering ==
    [][(pc = "enc" /\ plain' # plain)
          => Len(buffer) + (Len(plain') - Len(plain)) <= CHUNK_SIZE]_vars

\* C16: the chunk counter goes up by one per chunk sealed by write and never
\* past COUNTER_MAX; a write that has a full window to seal when the counter
\* stands at COUNTER_MAX returns an error and emits nothing; no two chunks
\* of one container are sealed under the same (counter, flag) pair
C16_CounterCeiling ==
    [][/\ \A k \in 1..Len(emitted') : emitted'[k].ctr = k - 1
       /\ \A i, j \in 1..Len(emitted') :
             (emitted'[i].ctr = emitted'[j].ctr
                 /\ emitted'[i].last = emitted'[j].last) => i = j
       /\ encryptor'.some => /\ encryptor'.position = Len(emitted')
                             /\ encryptor'.position <= COUNTER_MAX
       /\ (/\ encryptor.some
           /\ encryptor.position = COUNTER_MAX
           /\ plain' # plain
           /\ Len(buffer) + (Len(plain') - Len(plain)) >= CHUNK_SIZE)
             => /\ wres'.res = "err"
                /\ emitted' = emitted
                /\ encryptor' = encryptor]_vars

\* a write has been refused at the ceiling, every counter value below it
\* used
C16_Witness ==
    /\ wres.op = "write"
    /\ wres.res = "err"
    /\ encryptor.some
    /\ encryptor.position = COUNTER_MAX
    /\ Len(emitted) = COUNTER_MAX

\* the number of bytes of a nonce value
NonceLen(v) == IF "n" \in DOMAIN v THEN v.n ELSE Len(v.bytes)

\* C17: the nonce Encryptor::new generates and hands to the stream
\* construction, and the nonce Decryptor::new reads from a well-formed
\* source and hands to it, has the length the construction requires
\* (StreamNonceSize, 19 bytes), so that from_slice accepts it
C17_NonceSize ==
    /\ encryptor.some => NonceLen(encryptor.nonce) = StreamNonceSize
    /\ (decryptor.some /\ Honest)
          => NonceLen(decryptor.nonce) = StreamNonceSize

\* C18: from an untouched container of two or more chunks, sealed by writes
\* and one flush, every slice read hands to decrypt_next (the bytes from
\* srcPos to the new srcPos) is exactly one chunk as it was emitted,
\* however the source splits its bytes across read calls
C18_ChunkAligned ==
    [][(/\ pc = "dec"
        /\ Honest
        /\ OneFlushAtEnd
        /\ Len(emitted) >= 2
        /\ srcPos' > srcPos)
          => \E k \in 1..Len(emitted) :
                /\ srcPos + 1 = ChunkStart(k)
                /\ srcPos' = srcPos + ChunkLen(emitted[k])]_vars

\* C13: at every step of close, and after a close ended at any step, the
\* file under the container's name does not exist or holds the complete
\* container
C13_AtomicContainer == container.st \in {"absent", "full"}

\* C14: the container is removed only by the last step of open, after
\* unpack has written the whole archive to the directory and verify has
\* returned true; every other step of open, and every way open ends
\* early, leaves the container as it is
C14_RemovedAfterVerify ==
    [][/\ (container.st # "absent" /\ container'.st = "absent")
            => /\ Running("open", "remove")
               /\ verify(container)
               /\ dirExists
               /\ index = container.data.index
               /\ container.data.files \subseteq entryFiles
       /\ (proc.cmd = "open" /\ ~Running("open", "remove"))
            => container' = container]_vars

\* open has run to its end and removed the container
C14_Witness ==
    /\ proc.out = "Diary opened."
    /\ container.st = "absent"
    /\ dirExists
    /\ index.st = "full"

\* a file that holds a password as it was typed
HoldsPassword(f) == f.st = "full" /\ f.key \in Passwords

\* C15: no file the program has written holds the password in the clear
C15_PasswordNotPersisted ==
    /\ ~HoldsPassword(index)
    /\ ~HoldsPassword(indexNew)

\* C19: every step of close, also one that ends it early, leaves the diary
\* directory as it is unless a complete container holding what the
\* directory held exists after the step; once the directory is gone that
\* container is there; a container that exists when close gets to
\* creating its own is left as it is
C19_NoDataLoss ==
    [][proc.cmd = "close"
          => /\ \/ /\ dirExists' = dirExists
                   /\ index' = index
                   /\ indexNew' = indexNew
                   /\ entryFiles' = entryFiles
                \/ /\ container'.st = "full"
                   /\ container'.data = [index |-> index,
                                         files |-> entryFiles]
             /\ ~dirExists' => /\ container'.st = "full"
                               /\ container'.data.index.st = "full"
             /\ (container.st # "absent"
                   /\ proc.pc \in {"stage", "archive", "create"})
                  => container' = container]_vars

\* close has removed the directory, the complete container in place
C19_Witness ==
    /\ Running("close", "rmstage")
    /\ ~dirExists
    /\ container.st = "full"
    /\ container.data.index.st = "full"

\* C20: when no command is running and none was ended early, every entry
\* recorded in diary.json has its file, and every entry file is the file
\* of exactly one recorded entry
C20_IndexMatchesFiles ==
    (proc.cmd = "none" /\ ~crashed /\ index.st = "full")
        => /\ \A n \in Names :
                index.entries[n] # 0 => index.entries[n] \in entryFiles
           /\ \A id \in entryFiles :
                \E n \in Names :
                    /\ index.entries[n] = id
                    /\ \A m \in Names : index.entries[m] = id => m = n
====
